---- MODULE Spec2Model ----
(***************************************************************************)
(* Customer Management System: the Flask request handlers of app.py over   *)
(* the MongoDB collection "customer", with the validators of utils.py.     *)
(*                                                                         *)
(* Text is a sequence of one-character strings, so that the validators,    *)
(* the sanitizer and the number parser are computed character by           *)
(* character.  A Python float is a record [kind, val]: a finite value      *)
(* (integers only in this model), an infinity (val = 1 or -1) or NaN.      *)
(* An optional value (a dictionary key that may be missing, None) is a     *)
(* sequence of length 0 or 1.                                              *)
(***************************************************************************)
EXTENDS Integers, Sequences, FiniteSets, TLC

VARIABLES
    collection,   \* db.customer: the documents, in natural (insertion) order
    cookie,       \* the browser's signed session cookie: <<>> or <<username>>
    req,          \* per worker thread: the request it is serving, if any
    clock,        \* datetime.now(timezone.utc), one tick per response
    resp,         \* the response most recently sent back
    prev          \* the response sent before that one

vars == <<collection, cookie, req, clock, resp, prev>>

(***************************************************************************)
(* Bounds of the model.                                                    *)
(***************************************************************************)
MaxClock == 2     \* requests answered per run
MaxAmount == 3    \* largest finite Amount_Received a payment may produce
MaxCustomers == 45  \* customers stored when the list is requested
MaxListed == 1    \* list requests answered per run of the list specification

(***************************************************************************)
(* Characters.                                                             *)
(***************************************************************************)
DigitChars == <<"0", "1", "2", "3", "4", "5", "6", "7", "8", "9">>
UpperChars == <<"A", "B", "C", "D", "E", "F", "G", "H", "I", "J", "K", "L", "M",
                "N", "O", "P", "Q", "R", "S", "T", "U", "V", "W", "X", "Y", "Z">>
LowerChars == <<"a", "b", "c", "d", "e", "f", "g", "h", "i", "j", "k", "l", "m",
                "n", "o", "p", "q", "r", "s", "t", "u", "v", "w", "x", "y", "z">>

Range(f) == {f[i] : i \in DOMAIN f}
Digit == Range(DigitChars)                                  \* [0-9], \d
Upper == Range(UpperChars)
Letter == Range(UpperChars) \cup Range(LowerChars)          \* [A-Za-z]
WhiteSpace == {" ", "\t", "\n", "\r"}                        \* str.strip(), \s
IdChars == Letter \cup Digit \cup {"_", "-"}                 \* [A-Za-z0-9_-]
NameChars == Letter \cup WhiteSpace \cup {".", "-", "'"}     \* [A-Za-z\s\.\-\']
PhoneFiller == WhiteSpace \cup {"-", "(", ")"}              \* [\s\-\(\)]

Min(S) == CHOOSE m \in S : \A k \in S : m <= k
Max(S) == CHOOSE m \in S : \A k \in S : m >= k

\* str.lower() on one character
ToLower(c) ==
    IF c \in Upper
    THEN LowerChars[CHOOSE i \in DOMAIN UpperChars : UpperChars[i] = c]
    ELSE c

Lower(s) == [i \in DOMAIN s |-> ToLower(s[i])]

\* str.strip()
Strip(s) ==
    LET keep == {i \in DOMAIN s : s[i] \notin WhiteSpace}
    IN  IF keep = {} THEN <<>> ELSE SubSeq(s, Min(keep), Max(keep))

\* s[:n]
Take(s, n) == SubSeq(s, 1, IF Len(s) < n THEN Len(s) ELSE n)

\* re.sub(r'[chars]', '', s)
Remove(s, chars) == SelectSeq(s, LAMBDA c : c \notin chars)

\* re.match(r'^[class]{lo,hi}$', s): "$" also matches before one trailing newline
MatchClass(s, class, lo, hi) ==
    LET body == IF s # <<>> /\ s[Len(s)] = "\n" /\ "\n" \notin class
                THEN SubSeq(s, 1, Len(s) - 1) ELSE s
    IN  \/ /\ Len(s) \in lo..hi
           /\ \A i \in DOMAIN s : s[i] \in class
        \/ /\ Len(body) \in lo..hi
           /\ \A i \in DOMAIN body : body[i] \in class

(***************************************************************************)
(* utils.py                                                                *)
(***************************************************************************)
MaxTextLen == 500
MinIdLen == 3
MaxIdLen == 20
MinNameLen == 2
MaxNameLen == 100
MinPhoneDigits == 10
MaxPhoneDigits == 15
MinAddressLen == 5

sanitize_input(text) ==
    IF text = <<>> THEN <<>> ELSE Take(Strip(text), MaxTextLen)

validate_phone(phone) ==
    IF phone = <<>> THEN FALSE
    ELSE LET cleaned == Remove(phone, PhoneFiller)
             digits == IF cleaned # <<>> /\ cleaned[1] = "+" THEN Tail(cleaned) ELSE cleaned
         IN  MatchClass(digits, Digit, MinPhoneDigits, MaxPhoneDigits)

validate_customer_id(customer_id) ==
    IF customer_id = <<>> THEN FALSE
    ELSE MatchClass(customer_id, IdChars, MinIdLen, MaxIdLen)

validate_name(name) ==
    IF name = <<>> \/ Len(name) < MinNameLen \/ Len(name) > MaxNameLen THEN FALSE
    ELSE MatchClass(name, NameChars, 1, Len(name))

\* ^\d{4}-\d{2}-\d{2}$ : the shape only, no calendar check
validate_date(date_string) ==
    IF date_string = <<>> THEN FALSE
    ELSE LET s == IF date_string[Len(date_string)] = "\n"
                  THEN SubSeq(date_string, 1, Len(date_string) - 1) ELSE date_string
         IN  /\ Len(s) = 10
             /\ \A i \in {1, 2, 3, 4, 6, 7, 9, 10} : s[i] \in Digit
             /\ s[5] = "-" /\ s[8] = "-"

(***************************************************************************)
(* Python floats.                                                          *)
(***************************************************************************)
Fin(n) == [kind |-> "fin", val |-> n]
PosInf == [kind |-> "inf", val |-> 1]
NegInf == [kind |-> "inf", val |-> -1]
NaN == [kind |-> "nan", val |-> 0]
ValueError == [kind |-> "err", val |-> 0]   \* float() raised

DigitVal(c) == (CHOOSE i \in DOMAIN DigitChars : DigitChars[i] = c) - 1

RECURSIVE ToInt(_)
ToInt(s) == IF s = <<>> THEN 0 ELSE 10 * ToInt(SubSeq(s, 1, Len(s) - 1)) + DigitVal(s[Len(s)])

\* float(str): surrounding whitespace, an optional sign, then decimal digits
\* or one of inf / infinity / nan in any letter case
float(amount) ==
    LET t == Strip(amount)
        signed == t # <<>> /\ t[1] \in {"+", "-"}
        sign == IF signed /\ t[1] = "-" THEN -1 ELSE 1
        body == Lower(IF signed THEN Tail(t) ELSE t)
    IN  IF body = <<>> THEN ValueError
        ELSE IF \A i \in DOMAIN body : body[i] \in Digit THEN Fin(sign * ToInt(body))
        ELSE IF body \in {<<"i", "n", "f">>, <<"i", "n", "f", "i", "n", "i", "t", "y">>}
             THEN [kind |-> "inf", val |-> sign]
        ELSE IF body = <<"n", "a", "n">> THEN NaN
        ELSE ValueError

\* x >= 0 and x < 0 on floats: both are False for NaN
FGeZero(x) == \/ x.kind = "fin" /\ x.val >= 0
              \/ x = PosInf

\* a faulty comparison, one unit too lenient: x < -1
FLtMinusOne(x) == \/ x.kind = "fin" /\ x.val < 0 - 1
                  \/ x = NegInf
FLtZero(x) == \/ x.kind = "fin" /\ x.val < 0
              \/ x = NegInf

\* x + y and x - y on floats (finite values stay far from the overflow threshold)
FAdd(x, y) ==
    IF x.kind = "nan" \/ y.kind = "nan" THEN NaN
    ELSE IF x.kind = "inf" /\ y.kind = "inf" THEN (IF x.val = y.val THEN x ELSE NaN)
    ELSE IF x.kind = "inf" THEN x
    ELSE IF y.kind = "inf" THEN y
    ELSE Fin(x.val + y.val)

FNeg(x) == IF x.kind = "nan" THEN NaN ELSE [kind |-> x.kind, val |-> 0 - x.val]
FSub(x, y) == FAdd(x, FNeg(y))

validate_amount(amount) ==
    LET value == float(amount)
    IN  IF value.kind = "err" THEN FALSE ELSE FGeZero(value)

(***************************************************************************)
(* The MongoDB collection.  A document is a function from its keys to      *)
(* their values.  insert_one stores the keys of the Python dict as they    *)
(* are, so the dict key "Ph.no" becomes one top-level field of that name.  *)
(* In a filter or a $set, a key is a dotted path: "Ph.no" there names the  *)
(* field "no" of the embedded document "Ph".                               *)
(***************************************************************************)
Some(v) == <<v>>
None == <<>>

\* the path a filter / $set key names
FieldPath(key) == IF key = "Ph.no" THEN <<"Ph", "no">> ELSE <<key>>

\* the value at a path of a document: None when the path is missing
GetPath(doc, path) ==
    IF path[1] \notin DOMAIN doc THEN None
    ELSE IF Len(path) = 1 THEN Some(doc[path[1]])
    ELSE IF path[2] \in DOMAIN doc[path[1]] THEN Some(doc[path[1]][path[2]])
    ELSE None

\* the document with the value at a path set, embedded documents made as needed
SetPath(doc, path, v) ==
    LET top == path[1]
        new == IF Len(path) = 1 THEN v
               ELSE LET sub == path[2]
                        old == IF top \in DOMAIN doc THEN doc[top] ELSE [k \in {} |-> 0]
                    IN  [k \in DOMAIN old \cup {sub} |-> IF k = sub THEN v ELSE old[k]]
    IN  [k \in DOMAIN doc \cup {top} |-> IF k = top THEN new ELSE doc[k]]

\* {"$set": changes} applied to one document; changes is a sequence of <<key, value>>
RECURSIVE ApplySet(_, _)
ApplySet(doc, changes) ==
    IF changes = <<>> THEN doc
    ELSE ApplySet(SetPath(doc, FieldPath(changes[1][1]), changes[1][2]), Tail(changes))

\* positions of the documents matching {"Id": customer_id}
Matching(coll, customer_id) ==
    {i \in DOMAIN coll : GetPath(coll[i], FieldPath("Id")) = Some(customer_id)}

\* collection.find_one({"Id": customer_id}): the first match, or None
find_one(coll, customer_id) ==
    IF Matching(coll, customer_id) = {} THEN None
    ELSE Some(coll[Min(Matching(coll, customer_id))])

\* a collection without the unique index: every insert is allowed
IndexNotUnique(coll, doc) == TRUE

\* the unique index on "Id" (create_index(..., unique=True)): may doc be inserted?
UniqueIndexAllows(coll, doc) == Matching(coll, doc["Id"]) = {}

\* collection.insert_one(doc): the collection afterwards (DuplicateKeyError leaves it)
insert_one(coll, doc) ==
    IF UniqueIndexAllows(coll, doc) THEN Append(coll, doc) ELSE coll

\* an update with upsert=True: no match inserts a document made of the filter
\* and the changes
update_upsert(coll, customer_id, changes) ==
    IF Matching(coll, customer_id) = {}
    THEN Append(coll, ApplySet([k \in {"Id"} |-> customer_id], changes))
    ELSE LET i == Min(Matching(coll, customer_id))
         IN  [coll EXCEPT ![i] = ApplySet(coll[i], changes)]

\* an update whose filter is ignored (update_many with {}): every document changes
update_every(coll, customer_id, changes) ==
    [i \in DOMAIN coll |-> ApplySet(coll[i], changes)]

\* collection.update_one({"Id": customer_id}, {"$set": changes}): the first match
\* is changed; no match changes nothing and raises nothing
update_one(coll, customer_id, changes) ==
    IF Matching(coll, customer_id) = {} THEN coll
    ELSE LET i == Min(Matching(coll, customer_id))
         IN  [coll EXCEPT ![i] = ApplySet(coll[i], changes)]

\* a delete_one whose filter is ignored: the first document is removed
delete_first(coll, customer_id) ==
    IF coll = <<>> THEN coll ELSE Tail(coll)

\* collection.delete_one({"Id": customer_id}): the first match is removed
delete_one(coll, customer_id) ==
    IF Matching(coll, customer_id) = {} THEN coll
    ELSE LET i == Min(Matching(coll, customer_id))
         IN  SubSeq(coll, 1, i - 1) \o SubSeq(coll, i + 1, Len(coll))

\* result.deleted_count of that delete_one
deleted_count(coll, customer_id) ==
    IF Matching(coll, customer_id) = {} THEN 0 ELSE 1

(***************************************************************************)
(* config.py and the users table of app.py.                                *)
(***************************************************************************)
CUSTOMERS_PER_PAGE == 20
USER_NAME == <<"a", "d", "m", "i", "n">>
USER_PASSWORD == <<"p", "w">>

generate_password_hash(password) == <<"#">> \o password
check_password_hash(pwhash, password) == pwhash = <<"#">> \o password

\* users = {USER_NAME: _pw_hash}, as the set of its items
users == {<<USER_NAME, generate_password_hash(USER_PASSWORD)>>}

(***************************************************************************)
(* The requests the model sends.                                           *)
(***************************************************************************)
Threads == {1, 2}

C01 == <<"c", "0", "1">>
C02 == <<"c", "0", "2">>
UrlIds == {C01, C02}                        \* <customer_id> of the URL

Phone1 == <<"9", "8", "7", "6", "5", "4", "3", "2", "1", "0">>
Phone2 == <<"+", "9", "1", " ", "9", "8", "7", "6", "5", "-", "4", "3", "2", "1", "0">>
Date1 == <<"2", "0", "2", "4", "-", "0", "2", "-", "2", "9">>
Date2 == <<"2", "0", "2", "4", "-", "0", "2", "-", "3", "0">>
Address1 == <<"1", " ", "E", "l", "m">>
Address2 == <<"2", "2", " ", "O", "a", "k", " ">>
Zero == <<"0">>
One == <<"1">>
Two == <<"2">>
Inf == <<"i", "n", "f">>

\* request.form of /create_customer
CreateForm(customer_id, name, phone, date, amount_received, balance_amount, address, model) ==
    [customer_id |-> customer_id, name |-> name, phone |-> phone, date |-> date,
     amount_received |-> amount_received, balance_amount |-> balance_amount,
     address |-> address, model |-> model]

CreateForms ==
    UNION {{ CreateForm(id, <<"A", "l">>, Phone1, Date1, Zero, Two, Address1, <<"X", "2">>),
             CreateForm(id, <<" ", "B", "o", " ">>, Phone2, Date2, One, Inf, Address2, <<>>) }
           : id \in {C01, <<" ">> \o C02} }
    \cup
    { CreateForm(<<"c", "1">>, <<"A", "l">>, Phone1, Date1, Zero, Two, Address1, <<>>),
      CreateForm(C01, <<"A", "1">>, Phone1, Date1, Zero, Two, Address1, <<>>),
      CreateForm(C01, <<"A", "l">>, Phone1, Date1, Zero, <<"n", "a", "n">>, Address1, <<>>),
      CreateForm(C02, <<"A", "l">>, Phone1, Date1, Zero, Two, <<" ", "E", "l", "m", " ">>, <<>>) }

\* request.form of /edit_customer
EditForm(name, phone, address, model) ==
    [name |-> name, phone |-> phone, address |-> address, model |-> model]

EditForms ==
    { EditForm(<<"A", "l">>, Phone1, Address1, <<"X", "2">>),
      EditForm(<<" ", "B", "o", " ">>, Phone2, Address2, <<>>),
      EditForm(<<"A", "l">>, <<"1", "2", "3">>, Address1, <<>>),
      EditForm(<<"A", "l">>, Phone1, <<" ", "E", "l", "m", " ">>, <<>>) }

\* request.form of /update_amount
PaymentForm(new_amount) == [new_amount |-> new_amount]

\* new_amount of /update_amount
AmountInputs ==
    { <<"a", "b", "c">>, <<"-", "1">>, <<"n", "a", "n">>, Zero, One, Two, Inf }

UsernameInputs == {<<" ">> \o USER_NAME, <<"e", "v", "e">>, <<>>}
PasswordInputs == {USER_PASSWORD, <<"n", "o">>, <<>>}

(***************************************************************************)
(* State.                                                                  *)
(***************************************************************************)
Idle == [pc |-> "idle"]

\* what a request answered: the route, the <customer_id> it was about (for
\* create_customer the sanitized id of the form), the request.form it carried,
\* the flashed outcome, result.deleted_count for delete_customer, and calls,
\* the number of collection operations the request performed
Response(route, customer_id, input, outcome, count, calls) ==
    [route |-> route, customer_id |-> customer_id, input |-> input,
     outcome |-> outcome, count |-> count, calls |-> calls]

\* the idle worker thread that takes the next request
Free(t) == req[t] = Idle /\ \A u \in Threads : u < t => req[u] # Idle

\* each response ticks the clock: a request is admitted only while the run has
\* a tick left for it after those of the requests in flight
InFlight == Cardinality({t \in Threads : req[t] # Idle})
HasTick == clock + InFlight < MaxClock

\* the request returns r
Respond(r) == resp' = r /\ prev' = resp /\ clock' = clock + 1

\* session.get('username') of a request whose session was loaded from the cookie
SessionGet(session) == session

\* a guard that lets every session through
login_not_required(session) == TRUE

\* @login_required: 'username' in session
login_required(session) == session # None

(***************************************************************************)
(* /login and /logout                                                      *)
(***************************************************************************)
login(username_raw, password) ==
    LET username == sanitize_input(username_raw)
    IN  /\ HasTick
        /\ IF username = <<>> \/ password = <<>>
           THEN /\ Respond(Response("login", username, <<>>, "MissingCredentials", 0, 0))
                /\ UNCHANGED cookie
           ELSE IF \E u \in users : u[1] = username /\ check_password_hash(u[2], password)
           THEN /\ cookie' = Some(username)
                /\ Respond(Response("login", username, <<>>, "Success", 0, 0))
           ELSE /\ Respond(Response("login", username, <<>>, "InvalidCredentials", 0, 0))
                /\ UNCHANGED cookie
        /\ UNCHANGED <<collection, req>>

logout ==
    /\ HasTick
    /\ cookie' = None
    /\ Respond(Response("logout", <<>>, <<>>, "Success", 0, 0))
    /\ UNCHANGED <<collection, req>>

(***************************************************************************)
(* /create_customer (POST)                                                 *)
(***************************************************************************)
create_validation_errors(customer_id, name, phone, date, amount_received, balance_amount, address) ==
    (IF validate_customer_id(customer_id) THEN {} ELSE {"Invalid Customer ID format"})
    \cup (IF validate_name(name) THEN {} ELSE {"Invalid name format"})
    \cup (IF validate_phone(phone) THEN {} ELSE {"Invalid phone number format"})
    \cup (IF validate_date(date) THEN {} ELSE {"Invalid date format"})
    \cup (IF validate_amount(amount_received) THEN {} ELSE {"Invalid amount received"})
    \cup (IF validate_amount(balance_amount) THEN {} ELSE {"Invalid balance amount"})
    \cup (IF address = <<>> \/ Len(address) < MinAddressLen
          THEN {"Address must be at least 5 characters"} ELSE {})

\* a request that keeps the form fields as they were submitted
CreateRequestRaw(form, session) ==
    [pc |-> "insert_one", session |-> session, form |-> form,
     customer_id |-> form.customer_id, name |-> form.name, phone |-> form.phone,
     date |-> form.date,
     amount_received |-> float(form.amount_received),
     balance_amount |-> float(form.balance_amount),
     address |-> form.address, model |-> form.model]

\* lines 149-156, 190-191: the sanitized form fields and the converted amounts,
\* as the request holds them when it reaches insert_one
CreateRequest(form, session) ==
    [pc |-> "insert_one", session |-> session, form |-> form,
     customer_id |-> sanitize_input(form.customer_id),
     name |-> sanitize_input(form.name),
     phone |-> sanitize_input(form.phone),
     date |-> sanitize_input(form.date),
     amount_received |-> float(form.amount_received),
     balance_amount |-> float(form.balance_amount),
     address |-> sanitize_input(form.address),
     model |-> sanitize_input(form.model)]

\* lines 149-187: the validation errors of a form, its text fields sanitized
CreateErrors(form) ==
    create_validation_errors(
        sanitize_input(form.customer_id), sanitize_input(form.name),
        sanitize_input(form.phone), sanitize_input(form.date),
        form.amount_received, form.balance_amount, sanitize_input(form.address))

\* lines 146-198: sanitize, validate, then look the id up
create_customer(t, form) ==
    LET customer_id == sanitize_input(form.customer_id)
        validation_errors == CreateErrors(form)
    IN  /\ Free(t)
        /\ HasTick
        /\ IF ~login_required(cookie)
           THEN /\ Respond(Response("create_customer", customer_id, form, "Unauthorized", 0, 0))
                /\ UNCHANGED req
           ELSE IF validation_errors # {}
           THEN /\ Respond(Response("create_customer", customer_id, form, "InvalidInput", 0, 0))
                /\ UNCHANGED req
           ELSE IF find_one(collection, customer_id) # None
           THEN /\ Respond(Response("create_customer", customer_id, form, "DuplicateId", 0, 1))
                /\ UNCHANGED req
           ELSE /\ req' = [req EXCEPT ![t] = CreateRequest(form, cookie)]
                /\ UNCHANGED <<resp, prev, clock>>
        /\ UNCHANGED <<collection, cookie>>

\* lines 201-215: the document with its audit fields
NewCustomer(r, now) ==
    [k \in {"Id", "Name", "Ph.no", "Date", "Amount_Received", "Balance_Amount", "Address",
            "Model", "created_at", "created_by", "updated_at", "updated_by"} |->
        CASE k = "Id" -> r.customer_id
          [] k = "Name" -> r.name
          [] k = "Ph.no" -> r.phone
          [] k = "Date" -> r.date
          [] k = "Amount_Received" -> r.amount_received
          [] k = "Balance_Amount" -> r.balance_amount
          [] k = "Address" -> r.address
          [] k = "Model" -> r.model
          [] k = "created_at" -> now
          [] k = "created_by" -> SessionGet(r.session)
          [] k = "updated_at" -> now
          [] k = "updated_by" -> SessionGet(r.session)]

\* lines 201-225: insert_one, or DuplicateKeyError from the unique index
create_customer_insert(t) ==
    /\ req[t].pc = "insert_one"
    /\ LET r == req[t]
           customer == NewCustomer(r, clock + 1)
       IN  /\ collection' = insert_one(collection, customer)
           /\ Respond(Response("create_customer", r.customer_id, r.form,
                               IF UniqueIndexAllows(collection, customer)
                               THEN "Success" ELSE "DuplicateId", 0, 2))
    /\ req' = [req EXCEPT ![t] = Idle]
    /\ UNCHANGED cookie

(***************************************************************************)
(* /update_amount/<customer_id> (POST)                                     *)
(***************************************************************************)
\* lines 303-327: read the customer, validate the amount, reject an overpayment
update_amount(t, customer_id, new_amount_raw) ==
    LET found == find_one(collection, customer_id)
        customer == found[1]
        new_amount == float(new_amount_raw)
        updated_received == FAdd(customer["Amount_Received"], new_amount)
        updated_balance == FSub(customer["Balance_Amount"], new_amount)
    IN  /\ Free(t)
        /\ HasTick
        /\ IF ~login_required(cookie)
           THEN /\ Respond(Response("update_amount", customer_id, PaymentForm(new_amount_raw), "Unauthorized", 0, 0))
                /\ UNCHANGED req
           ELSE IF found = None
           THEN /\ Respond(Response("update_amount", customer_id, PaymentForm(new_amount_raw), "NotFound", 0, 1))
                /\ UNCHANGED req
           ELSE IF ~validate_amount(new_amount_raw)
           THEN /\ Respond(Response("update_amount", customer_id, PaymentForm(new_amount_raw), "InvalidInput", 0, 1))
                /\ UNCHANGED req
           ELSE IF FLtZero(updated_balance)
           THEN /\ Respond(Response("update_amount", customer_id, PaymentForm(new_amount_raw), "Overpayment", 0, 1))
                /\ UNCHANGED req
           ELSE /\ updated_received.kind = "fin" => updated_received.val <= MaxAmount
                /\ req' = [req EXCEPT ![t] =
                     [pc |-> "update_one", session |-> cookie, customer_id |-> customer_id,
                      form |-> PaymentForm(new_amount_raw),
                      customer |-> customer, new_amount |-> new_amount,
                      updated_received |-> updated_received,
                      updated_balance |-> updated_balance]]
                /\ UNCHANGED <<resp, prev, clock>>
        /\ UNCHANGED <<collection, cookie>>

\* a $set computed from the document stored at the time of the write instead of
\* the customer read at line 303 (what an atomic $inc would store)
AmountChangesOfStored(r, now) ==
    LET stored == IF find_one(collection, r.customer_id) = None
                  THEN r.customer ELSE find_one(collection, r.customer_id)[1]
    IN  << <<"Amount_Received", FAdd(stored["Amount_Received"], r.new_amount)>>,
           <<"Balance_Amount", FSub(stored["Balance_Amount"], r.new_amount)>>,
           <<"updated_at", now>>,
           <<"updated_by", SessionGet(r.session)>> >>

\* lines 331-338: the $set of update_amount
AmountChanges(r, now) ==
    << <<"Amount_Received", r.updated_received>>,
       <<"Balance_Amount", r.updated_balance>>,
       <<"updated_at", now>>,
       <<"updated_by", SessionGet(r.session)>> >>

\* lines 329-343: update_one, then the success flash whatever it matched
update_amount_write(t) ==
    /\ req[t].pc = "update_one"
    /\ collection' = update_one(collection, req[t].customer_id, AmountChanges(req[t], clock + 1))
    /\ Respond(Response("update_amount", req[t].customer_id, req[t].form, "Success", 0, 2))
    /\ req' = [req EXCEPT ![t] = Idle]
    /\ UNCHANGED cookie

(***************************************************************************)
(* /delete_customer/<customer_id> (POST)                                   *)
(***************************************************************************)
delete_customer(customer_id) ==
    /\ HasTick
    /\ IF ~login_required(cookie)
       THEN /\ Respond(Response("delete_customer", customer_id, <<>>, "Unauthorized", 0, 0))
            /\ UNCHANGED collection
       ELSE /\ collection' = delete_one(collection, customer_id)
            /\ Respond(Response("delete_customer", customer_id, <<>>,
                                IF deleted_count(collection, customer_id) > 0
                                THEN "Success" ELSE "NotFound",
                                deleted_count(collection, customer_id), 1))
    /\ UNCHANGED <<cookie, req>>

(***************************************************************************)
(* /edit_customer/<customer_id> (POST)                                     *)
(***************************************************************************)
\* an edit form that is not validated at all
edit_validation_skipped(updated_name, updated_phone, updated_address) == {}

\* lines 403-413: the validation errors of the edit form
edit_validation_errors(updated_name, updated_phone, updated_address) ==
    (IF validate_name(updated_name) THEN {} ELSE {"Invalid name format"})
    \cup (IF validate_phone(updated_phone) THEN {} ELSE {"Invalid phone number format"})
    \cup (IF updated_address = <<>> \/ Len(updated_address) < MinAddressLen
          THEN {"Address must be at least 5 characters"} ELSE {})

\* lines 388-418: read the customer, then sanitize and validate the form
edit_customer(t, customer_id, form) ==
    LET found == find_one(collection, customer_id)
        updated_name == sanitize_input(form.name)
        updated_phone == sanitize_input(form.phone)
        updated_address == sanitize_input(form.address)
        updated_model == sanitize_input(form.model)
        validation_errors == edit_validation_errors(updated_name, updated_phone, updated_address)
    IN  /\ Free(t)
        /\ HasTick
        /\ IF ~login_required(cookie)
           THEN /\ Respond(Response("edit_customer", customer_id, form, "Unauthorized", 0, 0))
                /\ UNCHANGED req
           ELSE IF found = None
           THEN /\ Respond(Response("edit_customer", customer_id, form, "NotFound", 0, 1))
                /\ UNCHANGED req
           ELSE IF validation_errors # {}
           THEN /\ Respond(Response("edit_customer", customer_id, form, "InvalidInput", 0, 1))
                /\ UNCHANGED req
           ELSE /\ req' = [req EXCEPT ![t] =
                     [pc |-> "edit_update_one", session |-> cookie, customer_id |-> customer_id,
                      form |-> form,
                      updated_name |-> updated_name, updated_phone |-> updated_phone,
                      updated_address |-> updated_address, updated_model |-> updated_model]]
                /\ UNCHANGED <<resp, prev, clock>>
        /\ UNCHANGED <<collection, cookie>>

\* lines 423-432: the $set of edit_customer
EditChanges(r, now) ==
    << <<"Name", r.updated_name>>,
       <<"Ph.no", r.updated_phone>>,
       <<"Address", r.updated_address>>,
       <<"Model", r.updated_model>>,
       <<"updated_at", now>>,
       <<"updated_by", SessionGet(r.session)>> >>

\* lines 421-437: update_one, then the success flash whatever it matched
edit_customer_write(t) ==
    /\ req[t].pc = "edit_update_one"
    /\ collection' = update_one(collection, req[t].customer_id, EditChanges(req[t], clock + 1))
    /\ Respond(Response("edit_customer", req[t].customer_id, req[t].form, "Success", 0, 2))
    /\ req' = [req EXCEPT ![t] = Idle]
    /\ UNCHANGED cookie

(***************************************************************************)
(* The specification: any request at any time, two in flight at most.      *)
(* The database outlives the process: at start-up the collection holds    *)
(* what earlier runs created (at time 0 here): nothing, one customer, or   *)
(* two customers with different ids.  The operator is logged in.           *)
(***************************************************************************)
Created(f) == NewCustomer(CreateRequest(f, Some(USER_NAME)), 0)
ValidCreateForms == {f \in CreateForms : CreateErrors(f) = {}}

InitialCollections ==
    {<<>>}
    \cup {<<Created(f)>> : f \in ValidCreateForms}
    \cup {<<Created(fg[1]), Created(fg[2])>> : fg \in
             {p \in ValidCreateForms \X ValidCreateForms :
                 /\ sanitize_input(p[1].customer_id) = C01
                 /\ sanitize_input(p[2].customer_id) = C02
                 /\ p[1].name # p[2].name}}

Init ==
    /\ collection \in InitialCollections
    /\ cookie = Some(USER_NAME)
    /\ req = [t \in Threads |-> Idle]
    /\ clock = 0
    /\ resp = Response("none", <<>>, <<>>, "none", 0, 0)
    /\ prev = Response("none", <<>>, <<>>, "none", 0, 0)

Next ==
    \/ \E t \in Threads, f \in CreateForms : create_customer(t, f)
    \/ \E t \in Threads : create_customer_insert(t)
    \/ \E t \in Threads, id \in UrlIds, a \in AmountInputs : update_amount(t, id, a)
    \/ \E t \in Threads : update_amount_write(t)
    \/ \E id \in UrlIds : delete_customer(id)
    \/ \E t \in Threads, id \in UrlIds, f \in EditForms : edit_customer(t, id, f)
    \/ \E t \in Threads : edit_customer_write(t)

Spec == Init /\ [][Next]_vars

(***************************************************************************)
(* Vocabulary of the properties.                                           *)
(***************************************************************************)
\* float comparisons: every comparison with NaN is False
Ext(x) == IF x.kind = "inf" THEN x.val * 1000000 ELSE x.val
IsNumber(x) == x.kind \in {"fin", "inf"}
FLe(x, y) == IsNumber(x) /\ IsNumber(y) /\ Ext(x) <= Ext(y)
FLt(x, y) == IsNumber(x) /\ IsNumber(y) /\ Ext(x) < Ext(y)
FEq(x, y) == IsNumber(x) /\ IsNumber(y) /\ Ext(x) = Ext(y)

Stored(coll, id) == Matching(coll, id) # {}
Customer(coll, id) == find_one(coll, id)[1]
Received(doc) == doc["Amount_Received"]
Balance(doc) == doc["Balance_Amount"]

\* this step sends a response; it is the response of a request that never went
\* past its first part (Answered), or of thread t's request in flight (Completes)
Responds == clock' = clock + 1
Answered(route) == Responds /\ req' = req /\ resp'.route = route
Completes(t, pc) == req[t].pc = pc /\ req'[t] = Idle

\* the request of thread t passes its checks in this step and goes in flight
Admitted(t, pc) == req[t] = Idle /\ req'[t].pc = pc

(***************************************************************************)
(* C1.  A payment d with 0 <= d <= Balance_Amount on a stored customer,    *)
(* with no other write to that customer between its read and its write,    *)
(* succeeds: it is not rejected, and its write leaves Balance_Amount =     *)
(* old - d, Amount_Received = old + d and Balance_Amount >= 0.             *)
(***************************************************************************)
PaymentAppliedStep ==
    /\ \A id \in UrlIds :
           LET d == float(resp'.input.new_amount)
           IN  ~ /\ Answered("update_amount")
                 /\ resp'.customer_id = id
                 /\ Stored(collection, id)
                 /\ FGeZero(d)
                 /\ FLe(d, Balance(Customer(collection, id)))
    /\ \A t \in Threads :
           Completes(t, "update_one") /\ find_one(collection, req[t].customer_id) = Some(req[t].customer)
           => LET id == req[t].customer_id
                  d == req[t].new_amount
                  old == Customer(collection, id)
                  new == Customer(collection', id)
              IN  /\ resp'.outcome = "Success"
                  /\ Stored(collection', id)
                  /\ FEq(Balance(new), FSub(Balance(old), d))
                  /\ FEq(Received(new), FAdd(Received(old), d))
                  /\ FGeZero(Balance(new))

PaymentApplied == [][PaymentAppliedStep]_vars

(***************************************************************************)
(* C2.  A payment d > Balance_Amount on a stored customer is answered      *)
(* Overpayment and leaves the collection as it was; no such payment is     *)
(* let through to the write.                                               *)
(***************************************************************************)
OverpaymentRejectedStep ==
    /\ \A id \in UrlIds :
           ( /\ Answered("update_amount")
             /\ resp'.customer_id = id
             /\ Stored(collection, id)
             /\ FLt(Balance(Customer(collection, id)), float(resp'.input.new_amount)) )
           => resp'.outcome = "Overpayment" /\ collection' = collection
    /\ \A t \in Threads :
           Admitted(t, "update_one")
           => ~FLt(Balance(Customer(collection, req'[t].customer_id)), req'[t].new_amount)

OverpaymentRejected == [][OverpaymentRejectedStep]_vars

\* an overpayment was answered: 2 is owed, the customer is still as created
OverpaymentWitness ==
    /\ resp.route = "update_amount" /\ resp.outcome = "Overpayment"
    /\ resp.input.new_amount = Inf
    /\ Stored(collection, resp.customer_id)
    /\ Balance(Customer(collection, resp.customer_id)) = Fin(2)
    /\ Customer(collection, resp.customer_id)["updated_at"] = 0

(***************************************************************************)
(* C3.  Every stored customer has Amount_Received >= 0 and                 *)
(* Balance_Amount >= 0.                                                    *)
(***************************************************************************)
AmountsNonNegative ==
    \A i \in DOMAIN collection :
        FGeZero(Received(collection[i])) /\ FGeZero(Balance(collection[i]))

(***************************************************************************)
(* C4.  Lost update.  A payment is checked against the customer it read    *)
(* and its write stores the amounts computed from that customer, whatever  *)
(* the collection holds by then, and answers Success: of two payments that *)
(* read the same customer, the later write wipes out the earlier one.      *)
(***************************************************************************)
LostUpdateStep ==
    /\ \A t \in Threads :
           Admitted(t, "update_one")
           => /\ req'[t].customer = Customer(collection, req'[t].customer_id)
              /\ ~FLtZero(FSub(Balance(req'[t].customer), req'[t].new_amount))
    /\ \A t \in Threads :
           Completes(t, "update_one")
           => /\ resp'.outcome = "Success"
              /\ Stored(collection, req[t].customer_id)
                 => LET new == Customer(collection', req[t].customer_id)
                    IN  /\ Received(new) = FAdd(Received(req[t].customer), req[t].new_amount)
                        /\ Balance(new) = FSub(Balance(req[t].customer), req[t].new_amount)

LostUpdate == [][LostUpdateStep]_vars

\* two payments d1 then d2 on a customer of the initial collection were both
\* answered Success although d1 + d2 exceeds what was owed, and the customer
\* holds the initial amounts changed by d2 alone
LostUpdateWitness ==
    \E f \in ValidCreateForms :
        LET id == Created(f)["Id"]
            d1 == float(prev.input.new_amount)
            d2 == float(resp.input.new_amount)
        IN  /\ prev.route = "update_amount" /\ prev.outcome = "Success" /\ prev.customer_id = id
            /\ resp.route = "update_amount" /\ resp.outcome = "Success" /\ resp.customer_id = id
            /\ clock = 2
            /\ Stored(collection, id)
            /\ Customer(collection, id)["Name"] = Created(f)["Name"]
            /\ FLt(Balance(Created(f)), FAdd(d1, d2))
            /\ FLt(Fin(0), d1)
            /\ Received(Customer(collection, id)) = FAdd(Received(Created(f)), d2)
            /\ Balance(Customer(collection, id)) = FSub(Balance(Created(f)), d2)

(***************************************************************************)
(* C5.  While a customer stays stored, no step of an update_amount or      *)
(* edit_customer request lowers its Amount_Received or raises its          *)
(* Balance_Amount.                                                         *)
(***************************************************************************)
MonotoneStep ==
    \A id \in UrlIds :
        ( /\ Stored(collection, id) /\ Stored(collection', id)
          /\ \/ Responds /\ resp'.route \in {"update_amount", "edit_customer"}
             \/ \E t \in Threads : Admitted(t, "update_one") \/ Admitted(t, "edit_update_one") )
        => /\ FLe(Received(Customer(collection, id)), Received(Customer(collection', id)))
           /\ FLe(Balance(Customer(collection', id)), Balance(Customer(collection, id)))

Monotone == [][MonotoneStep]_vars

(***************************************************************************)
(* C6.  Validation before any store access: a request whose input fails    *)
(* validation is answered InvalidInput without a single collection         *)
(* operation, in create_customer, update_amount and edit_customer alike.   *)
(***************************************************************************)
InvalidCreateForm(form) ==
    \/ ~validate_customer_id(sanitize_input(form.customer_id))
    \/ ~validate_name(sanitize_input(form.name))
    \/ ~validate_phone(sanitize_input(form.phone))
    \/ ~validate_date(sanitize_input(form.date))
    \/ ~validate_amount(form.amount_received)
    \/ ~validate_amount(form.balance_amount)
    \/ Len(sanitize_input(form.address)) < MinAddressLen

InvalidEditForm(form) ==
    \/ ~validate_name(sanitize_input(form.name))
    \/ ~validate_phone(sanitize_input(form.phone))
    \/ Len(sanitize_input(form.address)) < MinAddressLen

\* the response sent in this step is to a request with invalid input
InvalidRequest ==
    /\ Responds
    /\ login_required(cookie)
    /\ \/ resp'.route = "create_customer" /\ InvalidCreateForm(resp'.input)
       \/ resp'.route = "update_amount" /\ ~validate_amount(resp'.input.new_amount)
       \/ resp'.route = "edit_customer" /\ InvalidEditForm(resp'.input)

ValidationFirstStep ==
    InvalidRequest => resp'.outcome = "InvalidInput" /\ resp'.calls = 0

ValidationBeforeWriteStep ==
    InvalidRequest
    => /\ collection' = collection
       /\ resp'.route = "create_customer"
          => resp'.outcome = "InvalidInput" /\ resp'.calls = 0
       /\ resp'.route \in {"update_amount", "edit_customer"}
          => /\ resp'.calls = 1
             /\ resp'.outcome = IF Stored(collection, resp'.customer_id)
                                THEN "InvalidInput" ELSE "NotFound"

FoundWhenWrittenStep ==
    /\ \A route \in {"update_amount", "edit_customer"} :
           Answered(route) /\ ~Stored(collection, resp'.customer_id)
           => resp'.outcome = "NotFound" /\ collection' = collection
    /\ ( /\ Responds
         /\ resp'.route \in {"update_amount", "edit_customer"}
         /\ resp'.outcome = "Success" )
       => Stored(collection, resp'.customer_id)

FoundWhenWritten == [][FoundWhenWrittenStep]_vars

(***************************************************************************)
(* C8.  At most one customer per Id.  create_customer for a stored Id is   *)
(* answered DuplicateId and leaves the collection as it was, also when the *)
(* Id was inserted between its find_one and its insert_one: of two such    *)
(* racing requests one inserts and the other is answered DuplicateId.      *)
(***************************************************************************)
UniqueIds ==
    \A i, j \in DOMAIN collection : i # j => collection[i]["Id"] # collection[j]["Id"]

UniqueIdStep ==
    /\ UniqueIds'
    /\ ( /\ Answered("create_customer")
         /\ ~InvalidCreateForm(resp'.input)
         /\ Stored(collection, resp'.customer_id) )
       => resp'.outcome = "DuplicateId" /\ collection' = collection
    /\ \A t \in Threads :
           Completes(t, "insert_one")
           => IF Stored(collection, req[t].customer_id)
              THEN resp'.outcome = "DuplicateId" /\ collection' = collection
              ELSE /\ resp'.outcome = "Success"
                   /\ collection' = Append(collection, Customer(collection', req[t].customer_id))
                   /\ Customer(collection', req[t].customer_id)["Name"] = req[t].name

UniqueId == UniqueIds /\ [][UniqueIdStep]_vars

\* two requests to create the same Id both passed find_one; the first inserted,
\* the second was stopped by the unique index, and the first one's customer stays
UniqueIdWitness ==
    /\ prev.route = "create_customer" /\ prev.outcome = "Success"
    /\ resp.route = "create_customer" /\ resp.outcome = "DuplicateId" /\ resp.calls = 2
    /\ resp.customer_id = prev.customer_id
    /\ resp.input.name # prev.input.name
    /\ Cardinality(Matching(collection, resp.customer_id)) = 1
    /\ Customer(collection, resp.customer_id)["Name"] = sanitize_input(prev.input.name)

(***************************************************************************)
(* C9.  delete_customer removes the customer with that Id and no other,    *)
(* and reports deleted_count 1 when there was one and 0 when there was     *)
(* none; right after a delete that reported 1, a second delete of the same *)
(* Id reports 0, is answered like any other request and changes nothing.   *)
(***************************************************************************)
DeleteIdempotentStep ==
    Responds /\ resp'.route = "delete_customer"
    => LET id == resp'.customer_id
       IN  /\ resp'.count = IF Stored(collection, id) THEN 1 ELSE 0
           /\ resp'.outcome = IF Stored(collection, id) THEN "Success" ELSE "NotFound"
           /\ ~Stored(collection', id)
           /\ collection' = SelectSeq(collection, LAMBDA doc : doc["Id"] # id)
           /\ ( resp.route = "delete_customer" /\ resp.customer_id = id /\ resp.count = 1 )
              => resp'.count = 0 /\ collection' = collection

DeleteIdempotent == [][DeleteIdempotentStep]_vars

\* the same Id was deleted twice in a row, 1 then 0, and another customer is
\* still stored
DeleteIdempotentWitness ==
    /\ prev.route = "delete_customer" /\ prev.count = 1
    /\ resp.route = "delete_customer" /\ resp.count = 0
    /\ resp.customer_id = prev.customer_id
    /\ ~Stored(collection, resp.customer_id)
    /\ Len(collection) = 1

(***************************************************************************)
(* C10.  After a successful edit_customer the stored customer has Name,    *)
(* Ph.no, Address and Model (the top-level fields create_customer wrote)   *)
(* equal to the sanitized form values, and updated_at / updated_by are     *)
(* those of the edit.                                                      *)
(***************************************************************************)
EditAppliedStep ==
    \A t \in Threads :
        Completes(t, "edit_update_one") /\ Stored(collection, req[t].customer_id)
        => LET new == Customer(collection', req[t].customer_id)
               form == req[t].form
           IN  /\ resp'.outcome = "Success"
               /\ new["Name"] = sanitize_input(form.name)
               /\ new["Ph.no"] = sanitize_input(form.phone)
               /\ new["Address"] = sanitize_input(form.address)
               /\ new["Model"] = sanitize_input(form.model)
               /\ new["updated_at"] = clock'
               /\ new["updated_by"] = SessionGet(req[t].session)

EditApplied == [][EditAppliedStep]_vars

(***************************************************************************)
(* C11.  Frame of the two updates.  The write of edit_customer leaves Id,  *)
(* Date, Amount_Received and Balance_Amount of the customer as they were;  *)
(* the write of update_amount leaves Id, Name, Ph.no, Date, Address and    *)
(* Model as they were and adds no field; neither changes another customer  *)
(* nor the number of customers; the steps of these requests that answer    *)
(* without writing change nothing; and created_at / created_by of a        *)
(* customer that stays stored never change.                                *)
(***************************************************************************)
EditFrame == {"Id", "Date", "Amount_Received", "Balance_Amount", "created_at", "created_by"}
PaymentFrame == {"Id", "Name", "Ph.no", "Date", "Address", "Model", "created_at", "created_by"}

\* the write to customer id keeps the fields of frame and every other customer
Keeps(id, frame) ==
    /\ Len(collection') = Len(collection)
    /\ \A i \in DOMAIN collection :
           /\ collection[i]["Id"] # id => collection'[i] = collection[i]
           /\ \A k \in frame : k \in DOMAIN collection'[i] /\ collection'[i][k] = collection[i][k]

DisjointWritesStep ==
    /\ \A t \in Threads :
           Completes(t, "edit_update_one") => Keeps(req[t].customer_id, EditFrame)
    /\ \A t \in Threads :
           Completes(t, "update_one")
           => /\ Keeps(req[t].customer_id, PaymentFrame)
              /\ \A i \in DOMAIN collection : DOMAIN collection'[i] = DOMAIN collection[i]
    /\ ( Answered("update_amount") \/ Answered("edit_customer")
         \/ \E t \in Threads : Admitted(t, "update_one") \/ Admitted(t, "edit_update_one") )
       => collection' = collection
    /\ \A id \in UrlIds :
           Stored(collection, id) /\ Stored(collection', id)
           => /\ Customer(collection', id)["created_at"] = Customer(collection, id)["created_at"]
              /\ Customer(collection', id)["created_by"] = Customer(collection, id)["created_by"]

DisjointWrites == [][DisjointWritesStep]_vars

\* a payment and then an edit were written to one of two customers: it has the
\* paid amounts and the edited name, the other customer is as it was created
DisjointWritesWitness ==
    /\ prev.route = "update_amount" /\ prev.outcome = "Success"
    /\ resp.route = "edit_customer" /\ resp.outcome = "Success"
    /\ resp.customer_id = C01 /\ prev.customer_id = C01
    /\ Len(collection) = 2
    /\ Stored(collection, C01) /\ Stored(collection, C02)
    /\ Received(Customer(collection, C01)) = Fin(2)
    /\ Balance(Customer(collection, C01)) = Fin(0)
    /\ Customer(collection, C01)["Name"] = sanitize_input(resp.input.name)
    /\ Customer(collection, C01)["created_at"] = 0
    /\ Customer(collection, C01)["updated_at"] = 2
    /\ Customer(collection, C02)["updated_at"] = 0

(***************************************************************************)
(* The specification with /login and /logout.  The session is a cookie the *)
(* browser keeps across runs of the process: at start-up the operator is   *)
(* logged out, or still logged in from an earlier run.                     *)
(***************************************************************************)
InitAuth ==
    /\ collection \in InitialCollections
    /\ cookie \in {None, Some(USER_NAME)}
    /\ req = [t \in Threads |-> Idle]
    /\ clock = 0
    /\ resp = Response("none", <<>>, <<>>, "none", 0, 0)
    /\ prev = Response("none", <<>>, <<>>, "none", 0, 0)

NextAuth ==
    \/ \E u \in UsernameInputs, p \in PasswordInputs : login(u, p)
    \/ logout
    \/ Next

SpecAuth == InitAuth /\ [][NextAuth]_vars

(***************************************************************************)
(* C12.  Only an authenticated session writes.  The cookie carries no      *)
(* username exactly from start-up or a logout until the next successful    *)
(* login; a create, payment, edit or delete request that arrives with such *)
(* a cookie is answered Unauthorized without any collection operation; a   *)
(* request goes in flight only with the username of its cookie; every      *)
(* change of the collection is made by a request whose session holds the   *)
(* configured username, and that username, never an empty one, is what the *)
(* write stores in updated_by.                                             *)
(***************************************************************************)
MutatingRoutes == {"create_customer", "update_amount", "edit_customer", "delete_customer"}

\* the session of the request that changes the collection in this step
Writer ==
    IF \E t \in Threads : req[t] # Idle /\ req'[t] = Idle
    THEN req[CHOOSE t \in Threads : req[t] # Idle /\ req'[t] = Idle].session
    ELSE cookie

AuthenticatedWritesStep ==
    /\ ( Responds /\ resp'.route = "logout" ) => cookie' = None
    /\ ( cookie = None /\ ~(Responds /\ resp'.route = "login" /\ resp'.outcome = "Success") )
       => cookie' = None
    /\ ( cookie' # None /\ cookie' # cookie )
       => Responds /\ resp'.route = "login" /\ resp'.outcome = "Success" /\ cookie' = Some(USER_NAME)
    /\ ( Responds /\ req' = req /\ resp'.route \in MutatingRoutes /\ cookie = None )
       => resp'.outcome = "Unauthorized" /\ resp'.calls = 0 /\ collection' = collection
    /\ \A t \in Threads :
           req[t] = Idle /\ req'[t] # Idle => cookie # None /\ req'[t].session = cookie
    /\ collection' # collection
       => /\ Writer = Some(USER_NAME)
          /\ USER_NAME # <<>>
          /\ resp'.route \in MutatingRoutes
          /\ resp'.route # "delete_customer"
             => /\ Stored(collection', resp'.customer_id)
                /\ Customer(collection', resp'.customer_id)["updated_by"] = Some(USER_NAME)
                /\ Customer(collection', resp'.customer_id)["created_by"] = Some(USER_NAME)

AuthenticatedWrites == [][AuthenticatedWritesStep]_vars

\* after a logout a delete of a stored customer was turned away, and the
\* customer is still stored
AuthenticatedWritesWitness ==
    /\ prev.route = "logout"
    /\ resp.route = "delete_customer" /\ resp.outcome = "Unauthorized"
    /\ cookie = None
    /\ Stored(collection, resp.customer_id)

(***************************************************************************)
(* C13.  Round trip of create_customer.  After a successful insert of the  *)
(* form X, find_one by X's customer_id returns a customer whose Id, Name,  *)
(* Ph.no, Date, Address and Model are X's fields, whose amounts are the    *)
(* numbers X's amounts denote, and whose created_at / created_by /         *)
(* updated_at / updated_by are set.                                        *)
(***************************************************************************)
AuditSet(doc, now) ==
    /\ doc["created_at"] = now /\ doc["updated_at"] = now
    /\ doc["created_by"] # None /\ doc["updated_by"] # None

CreateRoundTripStep ==
    \A t \in Threads :
        Completes(t, "insert_one") /\ resp'.outcome = "Success"
        => LET X == req[t].form
               found == find_one(collection', X.customer_id)
           IN  /\ found # None
               /\ found[1]["Id"] = X.customer_id
               /\ found[1]["Name"] = X.name
               /\ found[1]["Ph.no"] = X.phone
               /\ found[1]["Date"] = X.date
               /\ found[1]["Amount_Received"] = float(X.amount_received)
               /\ found[1]["Balance_Amount"] = float(X.balance_amount)
               /\ found[1]["Address"] = X.address
               /\ found[1]["Model"] = X.model
               /\ AuditSet(found[1], clock')

CreateRoundTrip == [][CreateRoundTripStep]_vars

\* C13 as the code has it: the customer is stored under, and with, the
\* sanitized text fields (stripped, at most 500 characters), so it equals X in
\* the fields X submitted already stripped and short
SanitizedRoundTripStep ==
    \A t \in Threads :
        Completes(t, "insert_one") /\ resp'.outcome = "Success"
        => LET X == req[t].form
               found == find_one(collection', sanitize_input(X.customer_id))
           IN  /\ found # None
               /\ found[1]["Id"] = sanitize_input(X.customer_id)
               /\ found[1]["Name"] = sanitize_input(X.name)
               /\ found[1]["Ph.no"] = sanitize_input(X.phone)
               /\ found[1]["Date"] = sanitize_input(X.date)
               /\ found[1]["Amount_Received"] = float(X.amount_received)
               /\ found[1]["Balance_Amount"] = float(X.balance_amount)
               /\ found[1]["Address"] = sanitize_input(X.address)
               /\ found[1]["Model"] = sanitize_input(X.model)
               /\ AuditSet(found[1], clock')
               /\ X.customer_id # sanitize_input(X.customer_id)
                  => find_one(collection', X.customer_id) = None

SanitizedRoundTrip == [][SanitizedRoundTripStep]_vars

\* a form with a padded id, name and address was created: the customer is
\* stored under the stripped id, with the stripped name
SanitizedRoundTripWitness ==
    /\ resp.route = "create_customer" /\ resp.outcome = "Success"
    /\ resp.input.customer_id = <<" ">> \o C02
    /\ resp.input.name = <<" ", "B", "o", " ">>
    /\ Stored(collection, C02)
    /\ Customer(collection, C02)["Name"] = <<"B", "o">>
    /\ Customer(collection, C02)["Amount_Received"] = Fin(1)
    /\ Customer(collection, C02)["created_at"] = clock
    /\ clock > 0

(***************************************************************************)
(* /view_all_customers (GET): the query string, the $regex filter, the     *)
(* sort, skip and limit of the cursor.                                     *)
(***************************************************************************)
\* the characters of the model in code point order: MongoDB compares strings
\* by their bytes when no collation is given
CodePoints ==
    <<"\t", "\n", "\r", " ", "'", "(", ")", "*", "+", "-", ".">> \o DigitChars
    \o UpperChars \o <<"\\", "_">> \o LowerChars

OrdOf == [c \in Range(CodePoints) |-> CHOOSE i \in DOMAIN CodePoints : CodePoints[i] = c]
Ord(c) == OrdOf[c]

\* a < b on strings
RECURSIVE StrLess(_, _)
StrLess(a, b) ==
    IF b = <<>> THEN FALSE
    ELSE IF a = <<>> THEN TRUE
    ELSE IF a[1] # b[1] THEN Ord(a[1]) < Ord(b[1])
    ELSE StrLess(Tail(a), Tail(b))

\* int(text) of request.args.get('page', 1, type=int): the number, or None for
\* the ValueError that makes get return the default
int(text) ==
    LET t == Strip(text)
        signed == t # <<>> /\ t[1] \in {"+", "-"}
        body == IF signed THEN Tail(t) ELSE t
    IN  IF body = <<>> \/ \E i \in DOMAIN body : body[i] \notin Digit THEN None
        ELSE IF signed /\ t[1] = "-" THEN Some(0 - ToInt(body))
        ELSE Some(ToInt(body))

\* the characters re.escape puts a backslash before
SpecialChars ==
    {"(", ")", "[", "]", "{", "}", "?", "*", "+", "-", "|", "^", "$", "\\", ".",
     "&", "~", "#", " ", "\t", "\n", "\r"}

\* re.escape(pattern)
RECURSIVE re_escape(_)
re_escape(pattern) ==
    IF pattern = <<>> THEN <<>>
    ELSE (IF pattern[1] \in SpecialChars THEN <<"\\", pattern[1]>> ELSE <<pattern[1]>>)
         \o re_escape(Tail(pattern))

\* the operators of a regular expression when they are not escaped
Operators == {"(", ")", "[", "]", "{", "}", "?", "*", "+", "|", "^", "$"}

\* a $regex pattern read left to right: backslash and a character is that
\* character, "." is any character but newline, any other character is itself.
\* re.escape leaves no operator unescaped; a pattern that has one, or ends in a
\* backslash, is outside what this model interprets ("bad")
RECURSIVE Tokens(_)
Tokens(pattern) ==
    IF pattern = <<>> THEN <<>>
    ELSE IF pattern[1] = "\\"
         THEN IF Len(pattern) = 1 THEN <<[kind |-> "bad", char |-> "\\"]>>
              ELSE <<[kind |-> "lit", char |-> pattern[2]]>> \o Tokens(Tail(Tail(pattern)))
    ELSE IF pattern[1] = "." THEN <<[kind |-> "any", char |-> "."]>> \o Tokens(Tail(pattern))
    ELSE IF pattern[1] \in Operators
         THEN <<[kind |-> "bad", char |-> pattern[1]]>> \o Tokens(Tail(pattern))
    ELSE <<[kind |-> "lit", char |-> pattern[1]]>> \o Tokens(Tail(pattern))

\* one token against one character, "$options": "i"
TokenMatches(token, c) ==
    \/ token.kind = "any" /\ c # "\n"
    \/ token.kind = "lit" /\ ToLower(token.char) = ToLower(c)

\* {"$regex": pattern, "$options": "i"} on a string value: found anywhere in it
RegexFound(pattern, value) ==
    LET tokens == Tokens(pattern)
    IN  \E start \in 0..(Len(value) - Len(tokens)) :
            \A k \in DOMAIN tokens : TokenMatches(tokens[k], value[start + k])

\* does the server accept the pattern?
RegexValid(pattern) == \A k \in DOMAIN Tokens(pattern) : Tokens(pattern)[k].kind # "bad"

\* the keys of the "$or" of the search filter
SearchKeys == {"Name", "Id", "Ph.no", "Model"}

\* lines 249-261: query is {} (None here) or the "$or" of four $regex on escaped
Query(search_query) ==
    IF search_query = <<>> THEN None ELSE Some(re_escape(search_query))

\* does the document match the query?  A key of the filter names a path
QueryMatches(doc, query) ==
    \/ query = None
    \/ \E key \in SearchKeys :
           /\ GetPath(doc, FieldPath(key)) # None
           /\ RegexFound(query[1], GetPath(doc, FieldPath(key))[1])

\* collection.find(query), in the order of the collection
find(coll, query) == SelectSeq(coll, LAMBDA doc : QueryMatches(doc, query))

\* collection.count_documents(query)
count_documents(coll, query) == Len(find(coll, query))

\* doc put into docs, which are sorted by Name, after those not greater than it
RECURSIVE InsertByName(_, _)
InsertByName(docs, doc) ==
    IF docs = <<>> THEN <<doc>>
    ELSE IF StrLess(doc["Name"], docs[1]["Name"]) THEN <<doc>> \o docs
    ELSE <<docs[1]>> \o InsertByName(Tail(docs), doc)

\* .sort("Name", ASCENDING); customers of one Name stay in collection order
RECURSIVE sort(_)
sort(docs) ==
    IF docs = <<>> THEN <<>>
    ELSE InsertByName(sort(SubSeq(docs, 1, Len(docs) - 1)), docs[Len(docs)])

\* .skip(n) for n >= 0 (a negative n raises ValueError) and .limit(n)
skip(docs, n) == SubSeq(docs, n + 1, Len(docs))
limit(docs, n) == SubSeq(docs, 1, Min({n, Len(docs)}))

\* a page count that drops the last, partly filled page
TotalPagesFloor(total_customers, per_page) == total_customers \div per_page

\* line 265
TotalPages(total_customers, per_page) == (total_customers + per_page - 1) \div per_page

\* what render_template is given, next to the fields of every Response
ViewResponse(input, outcome, calls, customers, search_query, page, total_pages, total_customers) ==
    [route |-> "view_all_customers", customer_id |-> <<>>, input |-> input,
     outcome |-> outcome, count |-> 0, calls |-> calls,
     customers |-> customers, search_query |-> search_query, page |-> page,
     total_pages |-> total_pages, total_customers |-> total_customers]

\* request.args of /view_all_customers: page is None when the URL has none
ViewArgs(search, page) == [search |-> search, page |-> page]

\* lines 242-295: the whole handler.  count_documents runs before the cursor is
\* built; a negative skip raises ValueError there and an invalid $regex raises
\* OperationFailure in count_documents, and both end in the except branches,
\* which render an empty first page
view_all_customers(args) ==
    LET search_query == sanitize_input(args.search)
        parsed == IF args.page = None THEN None ELSE int(args.page[1])
        page == IF parsed = None THEN 1 ELSE parsed[1]
        per_page == CUSTOMERS_PER_PAGE
        query == Query(search_query)
        total_customers == count_documents(collection, query)
        total_pages == TotalPages(total_customers, per_page)
        customers == limit(skip(sort(find(collection, query)), (page - 1) * per_page), per_page)
    IN  /\ \A t \in Threads : req[t] = Idle
        /\ clock < MaxListed
        /\ IF ~login_required(cookie)
           THEN Respond(ViewResponse(args, "Unauthorized", 0, <<>>, <<>>, 1, 0, 0))
           ELSE IF query # None /\ ~RegexValid(query[1])
           THEN Respond(ViewResponse(args, "Error", 1, <<>>, <<>>, 1, 0, 0))
           ELSE IF (page - 1) * per_page < 0
           THEN Respond(ViewResponse(args, "Error", 1, <<>>, <<>>, 1, 0, 0))
           ELSE Respond(ViewResponse(args, "Success", 2, customers, search_query, page,
                                     total_pages, total_customers))
        /\ UNCHANGED <<collection, cookie, req>>

(***************************************************************************)
(* The list specification: one list request at a time on a collection of   *)
(* 0 to MaxCustomers customers that create_customer stored earlier.        *)
(***************************************************************************)
ListNames ==
    << <<"R", "a", "v", "i", " ", "K", "u", "m", "a", "r">>,
       <<"a", "s", "h", "a">>,
       <<"X", "a", "v", "i", "e", "r">>,
       <<"B", "o">>,
       <<"t", "r", "a", "v", "i", "s">> >>

ListModels ==
    << <<"X", "2">>, <<>>, <<"a", ".", "b">>, <<"R", "(", "1", ")", "+">> >>

\* the form the i-th customer was created with
ListForm(i) ==
    CreateForm(<<"c", DigitChars[(i \div 10) + 1], DigitChars[(i % 10) + 1]>>,
               ListNames[((i - 1) % Len(ListNames)) + 1],
               IF i % 2 = 0 THEN Phone1 ELSE Phone2,
               Date1, Zero, Two, Address1,
               ListModels[((i - 1) % Len(ListModels)) + 1])

ListCollection(n) == [i \in 1..n |-> Created(ListForm(i))]

Page(text) == Some(text)

ListRequests ==
    { ViewArgs(<<>>, p) :
        p \in {None, Page(<<"a", "b", "c">>), Page(<<"-", "1">>), Page(Zero), Page(One),
               Page(Two), Page(<<"3">>), Page(<<"4">>)} }
    \cup
    { ViewArgs(s, None) :
        s \in { <<" ", "R", "A", "V", "I", " ">>, <<"x", "a", "v", "i">>, <<".">>,
                <<"(", "1", ")", "+">>, <<"9", "8", "7", "6", "5">>, <<"c", "0">>,
                <<"x", "2">>, <<"i", " ", "k">> } }
    \cup
    { ViewArgs(<<"a">>, Page(Two)) }

InitList ==
    /\ collection \in {ListCollection(n) : n \in 0..MaxCustomers}
    /\ cookie = Some(USER_NAME)
    /\ req = [t \in Threads |-> Idle]
    /\ clock = 0
    /\ resp = Response("none", <<>>, <<>>, "none", 0, 0)
    /\ prev = Response("none", <<>>, <<>>, "none", 0, 0)

NextList == \E args \in ListRequests : view_all_customers(args)

SpecList == InitList /\ [][NextList]_vars

(***************************************************************************)
(* Vocabulary of the list properties.                                      *)
(***************************************************************************)
\* the list request resp answers, its page number (1 when the URL has none or
\* not a number) and its sanitized search term
Listed == resp.route = "view_all_customers"
PageNumber ==
    IF resp.input.page = None \/ int(resp.input.page[1]) = None
    THEN 1 ELSE int(resp.input.page[1])[1]
Term == sanitize_input(resp.input.search)

\* the positions of the customers the filter of that request selects
Selected == {i \in DOMAIN collection : QueryMatches(collection[i], Query(Term))}

\* the number of customers, of those at the positions selected, with a Name
\* below / not above that of doc
NamesBelow(selected, doc) ==
    Cardinality({j \in selected : StrLess(collection[j]["Name"], doc["Name"])})
NamesNotAbove(selected, doc) ==
    Cardinality({j \in selected : ~StrLess(doc["Name"], collection[j]["Name"])})

\* ceil(n / s)
Ceil(n, s) == CHOOSE k \in 0..n : k * s >= n /\ (k - 1) * s < n

(***************************************************************************)
(* C14.  Pagination.  A list request for page p >= 1 over totalMatching    *)
(* selected customers succeeds, reports total_pages = ceil(totalMatching / *)
(* S) and returns min(S, max(0, totalMatching - (p-1)*S)) customers: the   *)
(* distinct selected customers at positions (p-1)*S + 1 ... of the order   *)
(* by ascending Name; a page after the last returns none, without error.   *)
(***************************************************************************)
Pagination ==
    Listed /\ PageNumber >= 1
    => LET S == CUSTOMERS_PER_PAGE
           p == PageNumber
           selected == Selected
           totalMatching == Cardinality(selected)
       IN  /\ resp.outcome = "Success"
           /\ resp.page = p
           /\ resp.total_customers = totalMatching
           /\ resp.total_pages = Ceil(totalMatching, S)
           /\ Len(resp.customers) = Min({S, Max({0, totalMatching - (p - 1) * S})})
           /\ \A k \in DOMAIN resp.customers :
                  /\ \E i \in selected : collection[i] = resp.customers[k]
                  /\ NamesBelow(selected, resp.customers[k]) < (p - 1) * S + k
                  /\ (p - 1) * S + k <= NamesNotAbove(selected, resp.customers[k])
           /\ \A k, m \in DOMAIN resp.customers :
                  k # m => resp.customers[k]["Id"] # resp.customers[m]["Id"]

\* 45 customers, page 3: three pages, and the last five customers by Name
PaginationWitness ==
    /\ Listed /\ resp.outcome = "Success"
    /\ Term = <<>> /\ PageNumber = 3
    /\ Len(collection) = 45
    /\ resp.total_pages = 3
    /\ Len(resp.customers) = 5
    /\ resp.customers[1]["Name"] = ListNames[5]

(***************************************************************************)
(* C15.  A list request without a page, or with page 0 or a negative page, *)
(* is served as page 1: it succeeds and returns the first page of the      *)
(* selected customers with their total count.                              *)
(***************************************************************************)
PageClamped ==
    Listed /\ (resp.input.page = None \/ PageNumber <= 0)
    => LET S == CUSTOMERS_PER_PAGE
           selected == Selected
       IN  /\ resp.outcome = "Success"
           /\ resp.page = 1
           /\ resp.total_customers = Cardinality(selected)
           /\ Len(resp.customers) = Min({S, Cardinality(selected)})
           /\ \A k \in DOMAIN resp.customers :
                  /\ \E i \in selected : collection[i] = resp.customers[k]
                  /\ NamesBelow(selected, resp.customers[k]) < k
                  /\ k <= NamesNotAbove(selected, resp.customers[k])

(***************************************************************************)
(* C16.  The search term is a literal, case-insensitive substring.  A list *)
(* request succeeds whatever characters the term has; with an empty term   *)
(* it selects every customer; otherwise it selects the customers whose     *)
(* Name, Id, Ph.no or Model, the fields create_customer stored, contains   *)
(* the term, letters compared without case.                                *)
(***************************************************************************)
\* term occurs in value, ignoring case
Contains(value, term) ==
    \E start \in 0..(Len(value) - Len(term)) :
        \A k \in DOMAIN term : ToLower(value[start + k]) = ToLower(term[k])

\* the customer has the term in one of the fields of keys
HasTerm(doc, term, keys) ==
    term = <<>> \/ \E key \in keys : Contains(doc[key], term)

SearchLiteral ==
    Listed /\ PageNumber >= 1
    => LET expected == {i \in DOMAIN collection : HasTerm(collection[i], Term, SearchKeys)}
       IN  /\ resp.outcome = "Success"
           /\ resp.total_customers = Cardinality(expected)
           /\ Len(resp.customers) = Min({CUSTOMERS_PER_PAGE,
                  Max({0, Cardinality(expected) - (PageNumber - 1) * CUSTOMERS_PER_PAGE})})
           /\ \A k \in DOMAIN resp.customers : HasTerm(resp.customers[k], Term, SearchKeys)

(***************************************************************************)
(* C17.  validate_date accepts a string if and only if it is a real        *)
(* calendar date written YYYY-MM-DD (month 1..12, a day that month has,    *)
(* 29 February in leap years only), so create_customer lets through, and   *)
(* stores, real dates only.                                                *)
(***************************************************************************)
IsLeapYear(y) == (y % 4 = 0 /\ y % 100 # 0) \/ y % 400 = 0

DaysIn(y, m) ==
    IF m = 2 THEN (IF IsLeapYear(y) THEN 29 ELSE 28)
    ELSE IF m \in {4, 6, 9, 11} THEN 30 ELSE 31

IsRealDate(s) ==
    /\ Len(s) = 10
    /\ s[5] = "-" /\ s[8] = "-"
    /\ \A i \in {1, 2, 3, 4, 6, 7, 9, 10} : s[i] \in Digit
    /\ LET y == ToInt(SubSeq(s, 1, 4))
           m == ToInt(SubSeq(s, 6, 7))
           d == ToInt(SubSeq(s, 9, 10))
       IN  y >= 1 /\ m \in 1..12 /\ d \in 1..DaysIn(y, m)

RealDatesStep ==
    /\ Answered("create_customer")
       => LET date == sanitize_input(resp'.input.date)
          IN  /\ validate_date(date) <=> IsRealDate(date)
              /\ ~IsRealDate(date) => resp'.outcome = "InvalidInput"
    /\ \A t \in Threads :
           Admitted(t, "insert_one")
           => /\ validate_date(req'[t].date) <=> IsRealDate(req'[t].date)
              /\ IsRealDate(req'[t].date)
    /\ \A t \in Threads :
           Completes(t, "insert_one") /\ resp'.outcome = "Success"
           => IsRealDate(Customer(collection', req[t].customer_id)["Date"])

RealDates == [][RealDatesStep]_vars

(***************************************************************************)
(* C18.  validate_amount accepts exactly the texts that denote a finite    *)
(* number >= 0, so a create or payment request with any other amount       *)
(* (not a number, negative, nan, inf, -inf) is answered InvalidInput, no    *)
(* request goes on with a non-finite amount, and no insert or payment      *)
(* stores a non-finite Amount_Received or Balance_Amount.                  *)
(***************************************************************************)
FiniteNonNegative(amount) == float(amount).kind = "fin" /\ float(amount).val >= 0

FiniteAmountsStep ==
    /\ Answered("create_customer")
       => /\ validate_amount(resp'.input.amount_received)
                <=> FiniteNonNegative(resp'.input.amount_received)
          /\ validate_amount(resp'.input.balance_amount)
                <=> FiniteNonNegative(resp'.input.balance_amount)
    /\ Answered("update_amount")
       => ( validate_amount(resp'.input.new_amount)
                <=> FiniteNonNegative(resp'.input.new_amount) )
    /\ \A t \in Threads :
           Admitted(t, "insert_one")
           => req'[t].amount_received.kind = "fin" /\ req'[t].balance_amount.kind = "fin"
    /\ \A t \in Threads :
           Admitted(t, "update_one") => req'[t].new_amount.kind = "fin"
    /\ \A t \in Threads :
           ( \/ Completes(t, "insert_one") /\ resp'.outcome = "Success"
             \/ Completes(t, "update_one") /\ Stored(collection, req[t].customer_id) )
           => /\ Received(Customer(collection', req[t].customer_id)).kind = "fin"
              /\ Balance(Customer(collection', req[t].customer_id)).kind = "fin"

FiniteAmounts == [][FiniteAmountsStep]_vars

(***************************************************************************)
(* C19.  The write of update_amount stores amounts with the sum            *)
(* Amount_Received + Balance_Amount of the customer the request read, and  *)
(* no step of an update_amount or edit_customer request changes the sum    *)
(* stored for a customer, overlapping payments and lost updates included.  *)
(***************************************************************************)
Sum(doc) == FAdd(Received(doc), Balance(doc))

SumPreservedStep ==
    /\ \A t \in Threads :
           Completes(t, "update_one") /\ Stored(collection, req[t].customer_id)
           => FEq(Sum(Customer(collection', req[t].customer_id)), Sum(req[t].customer))
    /\ \A id \in UrlIds :
           ( /\ Stored(collection, id) /\ Stored(collection', id)
             /\ Responds /\ resp'.route \in {"update_amount", "edit_customer"} )
           => FEq(Sum(Customer(collection', id)), Sum(Customer(collection, id)))

SumPreserved == [][SumPreservedStep]_vars

(***************************************************************************)
(* C20.  No resurrection.  The write of an update_amount or edit_customer  *)
(* request whose customer was deleted after the request read it changes    *)
(* nothing, so the customer stays absent; a customer id that is not stored *)
(* becomes stored only by a successful insert of create_customer.          *)
(***************************************************************************)
NoResurrectionStep ==
    /\ \A t \in Threads :
           ( /\ Completes(t, "update_one") \/ Completes(t, "edit_update_one")
             /\ ~Stored(collection, req[t].customer_id) )
           => collection' = collection
    /\ \A id \in UrlIds :
           ~Stored(collection, id) /\ Stored(collection', id)
           => \E t \in Threads :
                  /\ Completes(t, "insert_one")
                  /\ req[t].customer_id = id
                  /\ resp'.outcome = "Success"

NoResurrection == [][NoResurrectionStep]_vars

\* a customer was deleted between the read and the write of an edit: the
\* delete removed it, the edit was written afterwards, and it is not stored
NoResurrectionWitness ==
    /\ prev.route = "delete_customer" /\ prev.count = 1
    /\ resp.route = "edit_customer" /\ resp.outcome = "Success" /\ resp.calls = 2
    /\ resp.customer_id = prev.customer_id
    /\ ~Stored(collection, resp.customer_id)
    /\ \A t \in Threads : req[t] = Idle

====
